---- MODULE Spec2Model ----
(***************************************************************************)
(* Model of the hourly planner generator (src/core/planner_generator.py,   *)
(* src/main.py).  Python strings are modelled as sequences of one-character *)
(* strings so that split / strip / int / strptime / strftime are computed  *)
(* the way the library computes them.                                       *)
(***************************************************************************)
EXTENDS Integers, Sequences, FiniteSets, TLC

VARIABLES
    pc,                  \* position of the run
    schedule_texts_raw,  \* config["schedule_texts"]
    idx,                 \* raw position (0-based) of the entry the loop is at
    schedule_texts_dict, \* start_time -> label
    top_three,           \* cleaned names of starred entries
    blocks,              \* color blocks, or the blocks argument of a direct call
    warnings,            \* number of "Skipping invalid schedule entry" warnings
    habits_list,         \* config["habits"]
    habits,              \* ordered dict name -> bool, as a sequence of pairs
    layout,              \* what generate_planner_pdf built (rows, fills, sidebar)
    docWritten,          \* doc.build(elements) wrote the output file
    status,              \* process exit status: -1 while running
    errKind,             \* which top-level handler ended the run
    hex_code,            \* argument of a direct _hex_to_rgb call
    hex_result           \* its outcome

vars == << pc, schedule_texts_raw, idx, schedule_texts_dict, top_three, blocks,
           warnings, habits_list, habits, layout, docWritten, status, errKind,
           hex_code, hex_result >>

(***************************************************************************)
(* Bounds                                                                   *)
(***************************************************************************)
MaxLen == 3
MaxLong == 9
MaxStar == 4
MaxHabits == 2
MaxBlocks == 2
MaxHexLen == 3

(***************************************************************************)
(* Characters and Python string primitives                                  *)
(***************************************************************************)
None == << "None" >>
NoColor == << >>

Whitespace == { " ", "\t" }
Digits == << "0", "1", "2", "3", "4", "5", "6", "7", "8", "9" >>
HexLower == << "0", "1", "2", "3", "4", "5", "6", "7", "8", "9",
               "a", "b", "c", "d", "e", "f" >>
HexUpper == << "0", "1", "2", "3", "4", "5", "6", "7", "8", "9",
               "A", "B", "C", "D", "E", "F" >>

Range(s) == { s[i] : i \in DOMAIN s }

IsDigit(c) == c \in Range(Digits)
DigitVal(c) == (CHOOSE i \in DOMAIN Digits : Digits[i] = c) - 1

IsHexDigit(c) == c \in Range(HexLower) \cup Range(HexUpper)
HexVal(c) ==
    IF c \in Range(HexLower)
    THEN (CHOOSE i \in DOMAIN HexLower : HexLower[i] = c) - 1
    ELSE (CHOOSE i \in DOMAIN HexUpper : HexUpper[i] = c) - 1

RECURSIVE LStripSet(_, _)
LStripSet(s, cs) ==
    IF s # << >> /\ Head(s) \in cs THEN LStripSet(Tail(s), cs) ELSE s

RECURSIVE RStripSet(_, _)
RStripSet(s, cs) ==
    IF s # << >> /\ s[Len(s)] \in cs
    THEN RStripSet(SubSeq(s, 1, Len(s) - 1), cs)
    ELSE s

Strip(s) == RStripSet(LStripSet(s, Whitespace), Whitespace)

RECURSIVE SplitAcc(_, _, _)
SplitAcc(s, sep, cur) ==
    IF s = << >> THEN << cur >>
    ELSE IF Head(s) = sep THEN << cur >> \o SplitAcc(Tail(s), sep, << >>)
    ELSE SplitAcc(Tail(s), sep, Append(cur, Head(s)))

Split(s, sep) == SplitAcc(s, sep, << >>)

StartsWith(s, c) == s # << >> /\ Head(s) = c

RECURSIVE DoubleChars(_)
DoubleChars(s) ==
    IF s = << >> THEN << >>
    ELSE << Head(s), Head(s) >> \o DoubleChars(Tail(s))

\* int(text, 16) on a two-character slice: both characters hexadecimal digits,
\* or one hexadecimal digit with a sign before it or whitespace around it.
Int16(two) ==
    LET t == Strip(two) IN
    IF Len(t) = 2 /\ IsHexDigit(t[1]) /\ IsHexDigit(t[2])
    THEN [ok |-> TRUE, val |-> 16 * HexVal(t[1]) + HexVal(t[2])]
    ELSE IF Len(t) = 2 /\ t[1] \in { "+", "-" } /\ IsHexDigit(t[2])
    THEN [ok |-> TRUE, val |-> IF t[1] = "-" THEN 0 - HexVal(t[2]) ELSE HexVal(t[2])]
    ELSE IF Len(t) = 1 /\ IsHexDigit(t[1])
    THEN [ok |-> TRUE, val |-> HexVal(t[1])]
    ELSE [ok |-> FALSE, val |-> 0]

\* _hex_to_rgb: a color is << r, g, b >> (numerators over 255); the default
\* is whatever the caller passed.
_hex_to_rgb(code, default) ==
    IF code = None \/ code = << >> THEN default
    ELSE LET h0 == LStripSet(Strip(code), { "#" }) IN
         IF Len(h0) \notin { 3, 6 } THEN default
         ELSE LET h == IF Len(h0) = 3 THEN DoubleChars(h0) ELSE h0
                  r == Int16(SubSeq(h, 1, 2))
                  g == Int16(SubSeq(h, 3, 4))
                  b == Int16(SubSeq(h, 5, 6))
              IN IF r.ok /\ g.ok /\ b.ok THEN << r.val, g.val, b.val >>
                 ELSE default

(***************************************************************************)
(* Integers and times of day                                                *)
(***************************************************************************)
RECURSIVE DecimalValue(_, _)
DecimalValue(s, acc) ==
    IF s = << >> THEN acc
    ELSE IF Head(s) = "_" THEN DecimalValue(Tail(s), acc)
    ELSE DecimalValue(Tail(s), 10 * acc + DigitVal(Head(s)))

\* int(text): surrounding whitespace, an optional sign, then digits that may
\* be separated by single underscores.
IntParse(text) ==
    LET t == Strip(text)
        signed == t # << >> /\ Head(t) \in { "+", "-" }
        body == IF signed THEN Tail(t) ELSE t
        wellFormed ==
            /\ body # << >>
            /\ \A i \in DOMAIN body : IsDigit(body[i]) \/ body[i] = "_"
            /\ IsDigit(body[1]) /\ IsDigit(body[Len(body)])
            /\ \A i \in 1..(Len(body) - 1) : ~(body[i] = "_" /\ body[i + 1] = "_")
    IN IF ~wellFormed THEN [ok |-> FALSE, val |-> 0]
       ELSE [ok |-> TRUE,
             val |-> IF signed /\ Head(t) = "-"
                     THEN 0 - DecimalValue(body, 0)
                     ELSE DecimalValue(body, 0)]

\* datetime.strptime(text, "%H:%M"): the regular expression
\* (2[0-3]|[0-1]\d|\d):([0-5]\d|\d) must match at the start and consume the
\* whole text.  The result is the number of minutes since midnight.
StrpTime(text) ==
    LET n == Len(text)
        twoDigitHour ==
            /\ n >= 2
            /\ \/ text[1] = "2" /\ text[2] \in { "0", "1", "2", "3" }
               \/ text[1] \in { "0", "1" } /\ IsDigit(text[2])
        hlen == IF twoDigitHour THEN 2 ELSE 1
        hourOk == twoDigitHour \/ (n >= 1 /\ IsDigit(text[1]))
        colonOk == hourOk /\ n >= hlen + 1 /\ text[hlen + 1] = ":"
        mpos == hlen + 2
        twoDigitMin ==
            /\ n >= mpos + 1
            /\ text[mpos] \in { "0", "1", "2", "3", "4", "5" }
            /\ IsDigit(text[mpos + 1])
        mlen == IF twoDigitMin THEN 2 ELSE 1
        minOk == colonOk /\ (twoDigitMin \/ (n >= mpos /\ IsDigit(text[mpos])))
        consumed == minOk /\ n = mpos + mlen - 1
        hour == IF hlen = 2 THEN 10 * DigitVal(text[1]) + DigitVal(text[2])
                ELSE DigitVal(text[1])
        minute == IF mlen = 2 THEN 10 * DigitVal(text[mpos]) + DigitVal(text[mpos + 1])
                  ELSE DigitVal(text[mpos])
    IN IF consumed THEN [ok |-> TRUE, min |-> 60 * hour + minute]
       ELSE [ok |-> FALSE, min |-> 0]

TwoDigits(n) == << Digits[(n \div 10) + 1], Digits[(n % 10) + 1] >>

\* strftime("%H:%M") of a time given in minutes since midnight
StrfTime(m) == TwoDigits(m \div 60) \o << ":" >> \o TwoDigits(m % 60)

\* Days a datetime on 1900-01-01 can move forward (to 9999-12-31) and
\* backward (to 0001-01-01) before the addition raises OverflowError.
MaxDayOffset == 2958463
MinDayOffset == -693595

\* _parse_schedule_text: "raise" is the ValueError of a wrong field count or
\* of a span that is not an integer.
_parse_schedule_text(schedule_str) ==
    LET raw == Split(schedule_str, "|")
        parts == [i \in DOMAIN raw |-> Strip(raw[i])]
    IN IF Len(parts) # 3
       THEN [raise |-> "ValueError", start_time |-> << >>, span |-> 0, task_name |-> << >>]
       ELSE LET n == IntParse(parts[2]) IN
            IF ~n.ok
            THEN [raise |-> "ValueError", start_time |-> << >>, span |-> 0, task_name |-> << >>]
            ELSE [raise |-> "none", start_time |-> parts[1], span |-> n.val,
                  task_name |-> parts[3]]

\* _calculate_end_time with a span counted in hours instead of half hours
_calculate_end_time_hourly(start_time, span) ==
    LET t == StrpTime(start_time)
        rest == (span % 24) * 60 + t.min
        days == (span \div 24) + (rest \div 1440)
    IN IF ~t.ok THEN [raise |-> "ValueError", end |-> << >>]
       ELSE IF days > MaxDayOffset \/ days < MinDayOffset
       THEN [raise |-> "OverflowError", end |-> << >>]
       ELSE [raise |-> "none", end |-> StrfTime(rest % 1440)]

\* _calculate_end_time: ValueError when start_time does not parse,
\* OverflowError when the sum leaves the datetime range, else "HH:MM" of the
\* sum (the date part is dropped by the formatting).
_calculate_end_time(start_time, span) ==
    LET t == StrpTime(start_time)
        rest == (span % 48) * 30 + t.min
        days == (span \div 48) + (rest \div 1440)
    IN IF ~t.ok THEN [raise |-> "ValueError", end |-> << >>]
       ELSE IF days > MaxDayOffset \/ days < MinDayOffset
       THEN [raise |-> "OverflowError", end |-> << >>]
       ELSE [raise |-> "none", end |-> StrfTime(rest % 1440)]

(***************************************************************************)
(* Ordered dictionaries                                                     *)
(***************************************************************************)
EmptyDict == << >>

\* d[key] = value on a dict modelled as a function
DictSet(d, key, value) ==
    [k \in (DOMAIN d) \cup { key } |-> IF k = key THEN value ELSE d[k]]

\* d.get(key, default)
DictGet(d, key, default) == IF key \in DOMAIN d THEN d[key] ELSE default

\* HabitsDict that puts every new name in front of the earlier ones
RECURSIVE HabitsDictReversed(_, _)
HabitsDictReversed(list, acc) ==
    IF list = << >> THEN acc
    ELSE IF \E i \in DOMAIN acc : acc[i][1] = Head(list)
    THEN HabitsDictReversed(Tail(list), acc)
    ELSE HabitsDictReversed(Tail(list), << << Head(list), FALSE >> >> \o acc)

\* {habit: False for habit in habits_list}: a repeated name keeps the
\* position of its first occurrence and yields a single item.
RECURSIVE HabitsDict(_, _)
HabitsDict(list, acc) ==
    IF list = << >> THEN acc
    ELSE IF \E i \in DOMAIN acc : acc[i][1] = Head(list)
    THEN HabitsDict(Tail(list), acc)
    ELSE HabitsDict(Tail(list), Append(acc, << Head(list), FALSE >>))

(***************************************************************************)
(* generate_planner_pdf                                                     *)
(***************************************************************************)
FirstRowMinute == 360
LastRowMinute == 1170
RowCount == ((LastRowMinute - FirstRowMinute) \div 30) + 1

\* strftime("%-I:%M"): 12-hour clock without a leading zero
Label12(m) ==
    LET h == IF (m \div 60) % 12 = 0 THEN 12 ELSE (m \div 60) % 12
    IN (IF h >= 10 THEN TwoDigits(h) ELSE << Digits[h + 1] >>)
       \o << ":" >> \o TwoDigits(m % 60)

\* ExpandBlock with the end included (t <= e)
RECURSIVE ExpandBlockInclusive(_, _, _, _)
ExpandBlockInclusive(fills, blk, t, e) ==
    IF t <= e
    THEN ExpandBlockInclusive(DictSet(fills, StrfTime(t),
                                      << _hex_to_rgb(blk.left_color, NoColor),
                                         _hex_to_rgb(blk.right_color, NoColor) >>),
                              blk, t + 30, e)
    ELSE fills

\* the while loop of one block: every half hour from t while t < e
RECURSIVE ExpandBlock(_, _, _, _)
ExpandBlock(fills, blk, t, e) ==
    IF t < e
    THEN ExpandBlock(DictSet(fills, StrfTime(t),
                             << _hex_to_rgb(blk.left_color, NoColor),
                                _hex_to_rgb(blk.right_color, NoColor) >>),
                     blk, t + 30, e)
    ELSE fills

\* row_fills after the loop over the blocks; "raise" when a start or end
\* does not parse
RECURSIVE RowFills(_, _)
RowFills(blks, fills) ==
    IF blks = << >> THEN [raise |-> "none", fills |-> fills]
    ELSE LET s == StrpTime(Head(blks).start)
             e == StrpTime(Head(blks).end)
         IN IF ~s.ok \/ ~e.ok THEN [raise |-> "ValueError", fills |-> fills]
            ELSE RowFills(Tail(blks), ExpandBlock(fills, Head(blks), s.min, e.min))

NoLayout == [left_rows |-> << >>, fills |-> << >>, three_rows |-> << >>,
             habit_rows |-> << >>]

DefaultTopThree == << << >>, << >>, << >> >>
DefaultHabits == << << "Walk", FALSE >>, << "Stretch", FALSE >>,
                    << "Water", FALSE >>, << "10 min sweat", FALSE >> >>

\* key24 of the row at row_idx (0-based)
RowKey(row_idx) == StrfTime(FirstRowMinute + 30 * row_idx)

\* left_rows: the label of every row and its text, schedule_texts.get(key24, "")
LeftRows(p_schedule_texts) ==
    [r \in 1..RowCount |->
       << Label12(FirstRowMinute + 30 * (r - 1)),
          DictGet(p_schedule_texts, RowKey(r - 1), << >>) >>]

\* the fill of the two slim columns of every row; NoColor stands for a column
\* that gets no BACKGROUND command
StyleFills(row_fills) ==
    [r \in 1..RowCount |->
       IF RowKey(r - 1) \in DOMAIN row_fills
       THEN row_fills[RowKey(r - 1)]
       ELSE << NoColor, NoColor >>]

\* ThreeRows reading the last three priorities instead of the first three
ThreeRowsLast(p_top_three) ==
    LET skip == IF Len(p_top_three) > 3 THEN Len(p_top_three) - 3 ELSE 0 IN
    [i \in 1..3 |->
       << i, IF i + skip <= Len(p_top_three) THEN p_top_three[i + skip] ELSE << >> >>]

\* three_rows: always three rows, padded with empty text
ThreeRows(p_top_three) ==
    [i \in 1..3 |-> << i, IF i <= Len(p_top_three) THEN p_top_three[i] ELSE << >> >>]

\* habit_rows: one row per item of the habits dict, in its order
HabitRows(p_habits) ==
    [i \in DOMAIN p_habits |->
       << p_habits[i][1], IF p_habits[i][2] THEN "[x]" ELSE "[ ]" >>]

\* The layout generate_planner_pdf builds, or the ValueError of a block whose
\* start or end does not parse.
generate_planner_pdf(p_schedule_texts, p_blocks, p_top_three, p_habits) ==
    LET rf == RowFills(p_blocks, EmptyDict)
    IN IF rf.raise # "none" THEN [raise |-> rf.raise, layout |-> NoLayout]
       ELSE [raise |-> "none",
             layout |-> [left_rows |-> LeftRows(p_schedule_texts),
                         fills |-> StyleFills(rf.fills),
                         three_rows |-> ThreeRows(p_top_three),
                         habit_rows |-> HabitRows(p_habits)]]

(***************************************************************************)
(* Configuration contents the run may read                                  *)
(***************************************************************************)
\* "08:00|2|Plan"
e_plain ==
    << "0", "8", ":", "0", "0", "|", "2", "|", "P", "l", "a", "n" >>
\* "08:00| 1 |* Big"
e_starred ==
    << "0", "8", ":", "0", "0", "|", " ", "1", " ", "|", "*", " ", "B", "i", "g" >>
\* "09:30|x|Call"
e_bad_span ==
    << "0", "9", ":", "3", "0", "|", "x", "|", "C", "a", "l", "l" >>
\* "10:00|1"
e_two_fields ==
    << "1", "0", ":", "0", "0", "|", "1" >>
\* "8h|1|*Dig"
e_bad_start ==
    << "8", "h", "|", "1", "|", "*", "D", "i", "g" >>
\* "23:30|3|*Eat"
e_wrap ==
    << "2", "3", ":", "3", "0", "|", "3", "|", "*", "E", "a", "t" >>
\* "08:15|-1|Fix"
e_negative ==
    << "0", "8", ":", "1", "5", "|", "-", "1", "|", "F", "i", "x" >>
\* "07:00|142010000|Gym"
e_overflow ==
    << "0", "7", ":", "0", "0", "|", "1", "4", "2", "0", "1", "0", "0", "0", "0", "|", "G", "y", "m" >>
\* "18:00|1|*Hat"
e_late ==
    << "1", "8", ":", "0", "0", "|", "1", "|", "*", "H", "a", "t" >>

EntryCatalogue ==
    { e_plain, e_starred, e_bad_span, e_two_fields, e_bad_start, e_wrap,
      e_negative, e_overflow, e_late }

LongCatalogue == { e_starred, e_bad_span }

SeqsUpTo(S, n) == UNION { [1..k -> S] : k \in 0..n }

StarCatalogue == { e_starred, e_bad_start, e_wrap, e_late }

ScheduleLists ==
    SeqsUpTo(EntryCatalogue, MaxLen) \cup SeqsUpTo(StarCatalogue, MaxStar)
        \cup SeqsUpTo(LongCatalogue, MaxLong)

HabitNames == { "Walk", "Water" }
HabitLists == SeqsUpTo(HabitNames, MaxHabits)

\* The configurations: every schedule list with the habits of the
\* documentation's example, and every habits list with a schedule of at most
\* one entry (the schedule and the habits never meet in the code).
Configs ==
    { [schedule_texts |-> raw, habits |-> << "Walk", "Water" >>] :
        raw \in ScheduleLists }
    \cup
    { [schedule_texts |-> raw, habits |-> hl] :
        raw \in SeqsUpTo(EntryCatalogue, 1), hl \in HabitLists }

color_palette ==
    << << "#", "F", "F", "F", "2", "0", "0" >>,
       << "#", "B", "5", "E", "6", "1", "D" >>,
       << "#", "F", "F", "A", "E", "C", "9" >>,
       << "#", "F", "F", "C", "9", "0", "E" >>,
       << "#", "E", "D", "1", "C", "2", "4" >>,
       << "#", "9", "9", "D", "9", "E", "A" >>,
       << "#", "F", "F", "D", "5", "4", "F" >>,
       << "#", "9", "0", "C", "A", "F", "9" >> >>

(***************************************************************************)
(* generate_from_toml                                                       *)
(***************************************************************************)
\* PaletteColor with positions counted from one
PaletteColorFromOne(i) == color_palette[((i + 1) % Len(color_palette)) + 1]

\* color_palette[idx % len(color_palette)]
PaletteColor(i) == color_palette[(i % Len(color_palette)) + 1]

\* task_name[1:].strip()
CleanTaskName(task_name) == Strip(Tail(task_name))

\* the label an entry gets: the cleaned name when the entry is starred
EntryLabel(task_name) ==
    IF StartsWith(task_name, "*") THEN CleanTaskName(task_name) ELSE task_name

\* top_three.append(...) and schedule_texts_dict[start_time] = ... of a parsed
\* entry p
RecordEntry(p, dict, three) ==
    [dict |-> DictSet(dict, p.start_time, EntryLabel(p.task_name)),
     three |-> IF StartsWith(p.task_name, "*")
               THEN Append(three, EntryLabel(p.task_name))
               ELSE three]

\* AppendBlock whose ValueError is not caught by the per-entry handler
AppendBlockFatal(i, p, et, rec, blks) ==
    IF et.raise # "none"
    THEN [outcome |-> et.raise, dict |-> rec.dict, three |-> rec.three, blks |-> blks]
    ELSE [outcome |-> "ok", dict |-> rec.dict, three |-> rec.three,
          blks |-> Append(blks, [start |-> p.start_time,
                                 end |-> et.end,
                                 left_color |-> PaletteColor(i),
                                 right_color |-> None])]

\* the rest of the iteration once the label is recorded (rec), given the
\* outcome et of _calculate_end_time
AppendBlock(i, p, et, rec, blks) ==
    IF et.raise = "ValueError"
    THEN [outcome |-> "skip", dict |-> rec.dict, three |-> rec.three, blks |-> blks]
    ELSE IF et.raise # "none"
    THEN [outcome |-> et.raise, dict |-> rec.dict, three |-> rec.three, blks |-> blks]
    ELSE [outcome |-> "ok", dict |-> rec.dict, three |-> rec.three,
          blks |-> Append(blks, [start |-> p.start_time,
                                 end |-> et.end,
                                 left_color |-> PaletteColor(i),
                                 right_color |-> None])]

\* ParsedEntry whose parse error is not caught by the per-entry handler
ParsedEntryAbort(i, p, dict, three, blks) ==
    IF p.raise # "none"
    THEN [outcome |-> p.raise, dict |-> dict, three |-> three, blks |-> blks]
    ELSE AppendBlock(i, p, _calculate_end_time(p.start_time, p.span),
                     RecordEntry(p, dict, three), blks)

\* the iteration given the outcome p of _parse_schedule_text
ParsedEntry(i, p, dict, three, blks) ==
    IF p.raise # "none"
    THEN [outcome |-> "skip", dict |-> dict, three |-> three, blks |-> blks]
    ELSE AppendBlock(i, p, _calculate_end_time(p.start_time, p.span),
                     RecordEntry(p, dict, three), blks)

\* One iteration of the loop over schedule_texts_raw, on the entry at raw
\* position i.  outcome is "ok" (block appended), "skip" (the per-entry
\* handler caught a ValueError and logged a warning) or "OverflowError"
\* (not a ValueError: it leaves the loop and reaches the outer handlers).
LoopBody(i, schedule_str, dict, three, blks) ==
    ParsedEntry(i, _parse_schedule_text(schedule_str), dict, three, blks)

Init ==
    /\ pc = "start"
    /\ schedule_texts_raw = << >>
    /\ idx = 0
    /\ schedule_texts_dict = EmptyDict
    /\ top_three = << >>
    /\ blocks = << >>
    /\ warnings = 0
    /\ habits_list = << >>
    /\ habits = << >>
    /\ layout = NoLayout
    /\ docWritten = FALSE
    /\ status = -1
    /\ errKind = "none"
    /\ hex_code = None
    /\ hex_result = NoColor

\* Fatal whose handler logs and returns instead of raising SystemExit(1)
FatalReturns(kind) ==
    /\ pc' = "done"
    /\ status' = 0
    /\ errKind' = kind

\* the run ends in a top-level handler: SystemExit(1)
Fatal(kind) ==
    /\ pc' = "done"
    /\ status' = 1
    /\ errKind' = kind

\* toml_file.exists() is false
FileNotFound ==
    /\ pc = "start"
    /\ Fatal("FileNotFoundError")
    /\ UNCHANGED << schedule_texts_raw, idx, schedule_texts_dict, top_three, blocks,
                    warnings, habits_list, habits, layout, docWritten, hex_code,
                    hex_result >>

\* tomllib.load raises TOMLDecodeError
TomlSyntaxError ==
    /\ pc = "start"
    /\ Fatal("SystemExit")
    /\ UNCHANGED << schedule_texts_raw, idx, schedule_texts_dict, top_three, blocks,
                    warnings, habits_list, habits, layout, docWritten, hex_code,
                    hex_result >>

\* the configuration is read and the accumulators are set up
ReadConfig ==
    /\ pc = "start"
    /\ \E config \in Configs :
         /\ schedule_texts_raw' = config.schedule_texts
         /\ habits_list' = config.habits
    /\ idx' = 0
    /\ schedule_texts_dict' = EmptyDict
    /\ top_three' = << >>
    /\ blocks' = << >>
    /\ pc' = "loop"
    /\ UNCHANGED << warnings, habits, layout, docWritten, status, errKind, hex_code,
                    hex_result >>

\* one iteration of the loop over enumerate(schedule_texts_raw)
ProcessEntry ==
    /\ pc = "loop"
    /\ idx < Len(schedule_texts_raw)
    /\ LET r == LoopBody(idx, schedule_texts_raw[idx + 1], schedule_texts_dict,
                         top_three, blocks)
       IN /\ schedule_texts_dict' = r.dict
          /\ top_three' = r.three
          /\ blocks' = r.blks
          /\ warnings' = IF r.outcome = "skip" THEN warnings + 1 ELSE warnings
          /\ IF r.outcome \in { "ok", "skip" }
             THEN /\ idx' = idx + 1
                  /\ UNCHANGED << pc, status, errKind >>
             ELSE /\ idx' = idx
                  /\ Fatal(IF r.outcome = "ValueError" THEN "ValueError"
                           ELSE "Exception")
    /\ UNCHANGED << schedule_texts_raw, habits_list, habits, layout, docWritten,
                    hex_code, hex_result >>

\* after the loop: notes, habits, params, generate_planner_pdf(**params).
\* The layout and rendering backend either builds and writes the document
\* or raises (a ValueError, or any other exception) before anything is
\* written.
BuildAndWrite ==
    /\ pc = "loop"
    /\ idx = Len(schedule_texts_raw)
    /\ \E backend \in { "ok", "ValueError", "Exception" } :
         /\ habits' = HabitsDict(habits_list, << >>)
         /\ LET g == generate_planner_pdf(schedule_texts_dict, blocks, top_three,
                                          habits')
                raised == IF g.raise # "none" THEN g.raise ELSE backend
            IN IF raised = "ok"
               THEN /\ layout' = g.layout
                    /\ docWritten' = TRUE
                    /\ pc' = "done"
                    /\ status' = 0
                    /\ errKind' = "none"
               ELSE /\ Fatal(raised)
                    /\ UNCHANGED << layout, docWritten >>
    /\ UNCHANGED << schedule_texts_raw, idx, schedule_texts_dict, top_three, blocks,
                    warnings, habits_list, hex_code, hex_result >>

Next ==
    \/ FileNotFound
    \/ TomlSyntaxError
    \/ ReadConfig
    \/ ProcessEntry
    \/ BuildAndWrite

Spec == Init /\ [][Next]_vars

(***************************************************************************)
(* A direct call of generate_planner_pdf with a list of blocks              *)
(***************************************************************************)
b_morning ==
    [start |-> << "0", "9", ":", "0", "0" >>, end |-> << "1", "0", ":", "3", "0" >>,
     left_color |-> << "#", "F", "F", "D", "5", "4", "F" >>, right_color |-> None]
b_work ==
    [start |-> << "1", "6", ":", "3", "0" >>, end |-> << "1", "7", ":", "3", "0" >>,
     left_color |-> << "#", "9", "0", "C", "A", "F", "9" >>, right_color |-> << "#", "9", "0", "C", "A", "F", "9" >>]
b_inner ==
    [start |-> << "0", "9", ":", "3", "0" >>, end |-> << "1", "0", ":", "0", "0" >>,
     left_color |-> << "#", "a", "b", "c" >>, right_color |-> << "z", "z", "z" >>]
b_quarter ==
    [start |-> << "0", "8", ":", "1", "5" >>, end |-> << "0", "9", ":", "1", "5" >>,
     left_color |-> << "#", "F", "F", "F", "2", "0", "0" >>, right_color |-> None]
b_backward ==
    [start |-> << "1", "0", ":", "0", "0" >>, end |-> << "0", "9", ":", "0", "0" >>,
     left_color |-> << "#", "E", "D", "1", "C", "2", "4" >>, right_color |-> << "#", "E", "D", "1", "C", "2", "4" >>]
b_early ==
    [start |-> << "5", ":", "0", "0" >>, end |-> << "0", "6", ":", "3", "0" >>,
     left_color |-> << "B", "5", "E", "6", "1", "D" >>, right_color |-> << >>]
b_evening ==
    [start |-> << "1", "9", ":", "0", "0" >>, end |-> << "2", "3", ":", "3", "0" >>,
     left_color |-> << "#", "F", "F", "A", "E", "C", "9" >>, right_color |-> << "#", "9", "9", "D", "9", "E", "A" >>]
b_unparsed ==
    [start |-> << "9", "a", "m" >>, end |-> << "1", "0", ":", "0", "0" >>,
     left_color |-> << "#", "F", "F", "C", "9", "0", "E" >>, right_color |-> None]

BlockCatalogue ==
    { b_morning, b_work, b_inner, b_quarter, b_backward, b_early, b_evening,
      b_unparsed }

InitPdf ==
    /\ pc = "pdf_call"
    /\ blocks \in SeqsUpTo(BlockCatalogue, MaxBlocks)
    /\ schedule_texts_raw = << >>
    /\ idx = 0
    /\ schedule_texts_dict = EmptyDict
    /\ top_three = DefaultTopThree
    /\ warnings = 0
    /\ habits_list = << >>
    /\ habits = DefaultHabits
    /\ layout = NoLayout
    /\ docWritten = FALSE
    /\ status = -1
    /\ errKind = "none"
    /\ hex_code = None
    /\ hex_result = NoColor

CallGeneratePlannerPdf ==
    /\ pc = "pdf_call"
    /\ LET g == generate_planner_pdf(schedule_texts_dict, blocks, top_three, habits)
       IN IF g.raise = "none"
          THEN /\ layout' = g.layout
               /\ docWritten' = TRUE
               /\ pc' = "pdf_done"
               /\ errKind' = "none"
          ELSE /\ pc' = "pdf_raised"
               /\ errKind' = g.raise
               /\ UNCHANGED << layout, docWritten >>
    /\ UNCHANGED << schedule_texts_raw, idx, schedule_texts_dict, top_three, blocks,
                    warnings, habits_list, habits, status, hex_code, hex_result >>

NextPdf == CallGeneratePlannerPdf

SpecPdf == InitPdf /\ [][NextPdf]_vars

(***************************************************************************)
(* A direct call of _hex_to_rgb                                             *)
(***************************************************************************)
HexAlphabet == { "1", "f", "G", "-" }
HexPairs == { << "1", "f" >>, << "A", "0" >>, << "-", "1" >>, << " ", "2" >>,
              << "g", "0" >> }

HexBodies ==
    SeqsUpTo(HexAlphabet, MaxHexLen)
        \cup { a \o b \o c : a \in HexPairs, b \in HexPairs, c \in HexPairs }

HexInputs ==
    { None } \cup
    { ws \o hash \o body \o ws :
        ws \in { << >>, << " " >> },
        hash \in { << >>, << "#" >>, << "#", "#" >> },
        body \in HexBodies }

InitHex ==
    /\ pc = "hex_call"
    /\ hex_code \in HexInputs
    /\ hex_result = NoColor
    /\ schedule_texts_raw = << >>
    /\ idx = 0
    /\ schedule_texts_dict = EmptyDict
    /\ top_three = << >>
    /\ blocks = << >>
    /\ warnings = 0
    /\ habits_list = << >>
    /\ habits = << >>
    /\ layout = NoLayout
    /\ docWritten = FALSE
    /\ status = -1
    /\ errKind = "none"

CallHexToRgb ==
    /\ pc = "hex_call"
    /\ hex_result' = _hex_to_rgb(hex_code, NoColor)
    /\ pc' = "hex_done"
    /\ UNCHANGED << schedule_texts_raw, idx, schedule_texts_dict, top_three, blocks,
                    warnings, habits_list, habits, layout, docWritten, status,
                    errKind, hex_code >>

NextHex == CallHexToRgb

SpecHex == InitHex /\ [][NextHex]_vars

(***************************************************************************)
(* Vocabulary of the properties                                             *)
(***************************************************************************)
\* What the parser and the end-time computation make of one entry
EntryFacts(e, p) ==
    [malformed |-> p.raise # "none",
     start |-> p.start_time,
     span |-> p.span,
     task |-> p.task_name,
     startOk |-> p.raise = "none" /\ StrpTime(p.start_time).ok,
     endRaise |-> IF p.raise # "none" THEN "unparsed"
                  ELSE _calculate_end_time(p.start_time, p.span).raise]

\* ... of every entry a configuration of the model can hold
FactsOf ==
    [e \in EntryCatalogue \cup StarCatalogue \cup LongCatalogue |->
        EntryFacts(e, _parse_schedule_text(e))]

\* wrong field count or non-integer span
Malformed(e) == FactsOf[e].malformed
StartOf(e) == FactsOf[e].start
SpanOf(e) == FactsOf[e].span
TaskOf(e) == FactsOf[e].task
\* three fields and an integer span, but a start_time that is not "HH:MM"
BadStart(e) == ~Malformed(e) /\ ~FactsOf[e].startOk
\* the entry gets a block
Good(e) == FactsOf[e].endRaise = "none"
\* the end time leaves the range of datetime
Overflows(e) == FactsOf[e].endRaise = "OverflowError"
Starred(e) == ~Malformed(e) /\ StartsWith(TaskOf(e), "*")
\* the task name without its leading "*" and the whitespace after it
Cleaned(e) == LStripSet(Tail(TaskOf(e)), Whitespace)
LabelOf(e) == IF Starred(e) THEN Cleaned(e) ELSE TaskOf(e)

\* the raw positions (1-based) among the first n whose entry got a block
RECURSIVE GoodUpTo(_)
GoodUpTo(n) ==
    IF n = 0 THEN << >>
    ELSE IF Good(schedule_texts_raw[n]) THEN Append(GoodUpTo(n - 1), n)
    ELSE GoodUpTo(n - 1)

\* the raw positions (1-based) among the first n whose entry is starred
RECURSIVE StarredUpTo(_)
StarredUpTo(n) ==
    IF n = 0 THEN << >>
    ELSE IF Starred(schedule_texts_raw[n]) THEN Append(StarredUpTo(n - 1), n)
    ELSE StarredUpTo(n - 1)

RawLen == Len(schedule_texts_raw)
Succeeded == pc = "done" /\ errKind = "none"

LastWithStart(start, n) ==
    CHOOSE j \in 1..n :
        /\ ~Malformed(schedule_texts_raw[j])
        /\ StartOf(schedule_texts_raw[j]) = start
        /\ \A m \in (j + 1)..n :
               Malformed(schedule_texts_raw[m]) \/ StartOf(schedule_texts_raw[m]) # start

C5_PaletteByRawPosition ==
    /\ Len(color_palette) = 8
    /\ Len(blocks) = Len(GoodUpTo(idx))
    /\ \A k \in 1..Len(GoodUpTo(idx)) :
           /\ blocks[k].left_color = color_palette[((GoodUpTo(idx)[k] - 1) % 8) + 1]
           /\ blocks[k].right_color = None

\* the ninth entry (raw position 8) gets the first color again, after an
\* earlier entry was skipped
C5_Witness ==
    /\ idx = 9
    /\ Good(schedule_texts_raw[9])
    /\ \E i \in 1..8 : ~Good(schedule_texts_raw[i])
    /\ Len(blocks) \in 1..8
    /\ blocks[Len(blocks)].left_color = color_palette[1]

(***************************************************************************)
(* C6                                                                       *)
(***************************************************************************)
\* C6 as stated, read for a list none of whose entries is skipped: with more
\* than three starred entries the sidebar has three rows showing the first
\* three in file order, and every starred entry shows its cleaned text in some
\* row of the schedule column.
C6_AllStarredInColumn ==
    ( /\ Succeeded
      /\ \A i \in 1..RawLen : Good(schedule_texts_raw[i])
      /\ Len(StarredUpTo(RawLen)) > 3 ) =>
        /\ Len(layout.three_rows) = 3
        /\ \A k \in 1..3 :
               layout.three_rows[k][2] = Cleaned(schedule_texts_raw[StarredUpTo(RawLen)[k]])
        /\ \A i \in 1..RawLen :
               Starred(schedule_texts_raw[i]) =>
                   \E r \in DOMAIN layout.left_rows :
                       layout.left_rows[r][2] = Cleaned(schedule_texts_raw[i])

\* C6 amended: the priorities list holds the cleaned names of all the
\* starred entries with three fields and an integer span, in file order; the
\* sidebar has exactly three rows, the first three of that list padded with
\* empty text; a starred entry shows its cleaned text in the schedule column
\* when its start_time is the key of one of the 28 rows and no later entry
\* with three fields and an integer span has the same start_time.
C6_FirstThreeStarred ==
    Succeeded =>
        /\ Len(top_three) = Len(StarredUpTo(RawLen))
        /\ \A k \in 1..Len(StarredUpTo(RawLen)) :
               top_three[k] = Cleaned(schedule_texts_raw[StarredUpTo(RawLen)[k]])
        /\ Len(layout.three_rows) = 3
        /\ \A k \in 1..3 :
               layout.three_rows[k][2]
                   = IF k <= Len(StarredUpTo(RawLen))
                     THEN Cleaned(schedule_texts_raw[StarredUpTo(RawLen)[k]])
                     ELSE << >>
        /\ Len(layout.left_rows) = RowCount
        /\ \A i \in 1..RawLen, r \in 1..RowCount :
               ( /\ Starred(schedule_texts_raw[i])
                 /\ StartOf(schedule_texts_raw[i]) = RowKey(r - 1)
                 /\ LastWithStart(StartOf(schedule_texts_raw[i]), RawLen) = i )
                   => layout.left_rows[r][2] = Cleaned(schedule_texts_raw[i])

\* four starred entries: the fourth is missing from the sidebar and shown in
\* the schedule column
C6_Witness ==
    /\ Succeeded
    /\ Len(top_three) = 4
    /\ \A k \in 1..3 : layout.three_rows[k][2] = top_three[k]
    /\ \A k \in 1..3 : top_three[k] # top_three[4]
    /\ \E r \in DOMAIN layout.left_rows : layout.left_rows[r][2] = top_three[4]

(***************************************************************************)
(* C8                                                                       *)
(***************************************************************************)
\* C8 as stated: the habit table has one row per element of the habits
\* list, in the order of the list, each marked "[ ]".
C8_RowPerElement ==
    Succeeded =>
        layout.habit_rows = [i \in DOMAIN habits_list |-> << habits_list[i], "[ ]" >>]

FirstIndex(name) == CHOOSE i \in DOMAIN habits_list :
                        habits_list[i] = name /\ \A j \in 1..(i - 1) : habits_list[j] # name

\* C8 amended: the habit table has one row per distinct name of the habits
\* list, in the order of the names' first occurrences, each marked "[ ]".
C8_RowPerDistinctName ==
    Succeeded =>
        /\ Len(layout.habit_rows) = Cardinality(Range(habits_list))
        /\ \A r \in DOMAIN layout.habit_rows :
               /\ layout.habit_rows[r][1] \in Range(habits_list)
               /\ layout.habit_rows[r][2] = "[ ]"
        /\ \A r1, r2 \in DOMAIN layout.habit_rows :
               r1 < r2 => FirstIndex(layout.habit_rows[r1][1])
                              < FirstIndex(layout.habit_rows[r2][1])

C8_Witness ==
    /\ Succeeded
    /\ habits_list = << "Walk", "Water" >>
    /\ layout.habit_rows = << << "Walk", "[ ]" >>, << "Water", "[ ]" >> >>

(***************************************************************************)
(* C9                                                                       *)
(***************************************************************************)
\* C9: the document is written only by a run that read the configuration,
\* processed every entry and built the layout, and such a run ended with
\* status 0; a run ended by a fatal error has status 1 and wrote nothing; a
\* run that ended without fatal error wrote the document; nothing is written
\* and no status is set before the end.
C9_WriteIsLast ==
    /\ docWritten => ( /\ pc = "done" /\ status = 0 /\ errKind = "none"
                       /\ idx = RawLen
                       /\ layout # NoLayout )
    /\ (pc = "done" /\ errKind # "none") => (status = 1 /\ ~docWritten)
    /\ (pc = "done" /\ errKind = "none") => (status = 0 /\ docWritten)
    /\ pc # "done" => (status = -1 /\ ~docWritten /\ errKind = "none")
    /\ errKind \in { "none", "FileNotFoundError", "SystemExit", "ValueError",
                     "Exception" }

\* every entry was processed and the layout step raised an invalid-data error
C9_Witness ==
    /\ pc = "done"
    /\ errKind = "ValueError"
    /\ status = 1
    /\ idx = RawLen
    /\ Len(blocks) > 0
    /\ ~docWritten

(***************************************************************************)
(* C10                                                                      *)
(***************************************************************************)
\* C10: an iteration that skips its entry with a warning leaves the label
\* mapping, the priorities list and the block list as they were.
C10_SkipChangesNothing ==
    [][warnings' > warnings =>
          /\ schedule_texts_dict' = schedule_texts_dict
          /\ top_three' = top_three
          /\ blocks' = blocks]_vars

(***************************************************************************)
(* C3                                                                       *)
(***************************************************************************)
Minute(text) == StrpTime(text).min
RowMinute(r) == FirstRowMinute + 30 * (r - 1)
FillOf(blk) == << _hex_to_rgb(blk.left_color, NoColor),
                  _hex_to_rgb(blk.right_color, NoColor) >>
MaxOf(S) == CHOOSE x \in S : \A y \in S : y <= x

\* the blocks whose half-open interval contains the start of row r
Containing(r) ==
    { k \in DOMAIN blocks :
        Minute(blocks[k].start) <= RowMinute(r) /\ RowMinute(r) < Minute(blocks[k].end) }

\* ... and from whose start the row is a whole number of half hours away
Stepping(r) ==
    { k \in Containing(r) : (RowMinute(r) - Minute(blocks[k].start)) % 30 = 0 }

\* C3 as stated: the fill of each of the 28 rows is the pair of the last
\* block whose interval [start, end) contains the row's start time, and no
\* fill when there is none.
C3_LastContainingBlock ==
    pc = "pdf_done" =>
        /\ Len(layout.fills) = 28
        /\ \A r \in 1..28 :
               layout.fills[r] = IF Containing(r) = {} THEN << NoColor, NoColor >>
                                 ELSE FillOf(blocks[MaxOf(Containing(r))])

\* C3 amended: the fill of each of the 28 rows is the pair of the last block
\* whose interval [start, end) contains the row's start time and whose start
\* is a whole number of half hours before it, and no fill when there is none.
C3_LastSteppingBlock ==
    pc = "pdf_done" =>
        /\ Len(layout.fills) = 28
        /\ \A r \in 1..28 :
               layout.fills[r] = IF Stepping(r) = {} THEN << NoColor, NoColor >>
                                 ELSE FillOf(blocks[MaxOf(Stepping(r))])

\* two blocks overlap on a row and the later one decides its fill
C3_Witness ==
    /\ pc = "pdf_done"
    /\ \E r \in 1..28 :
           /\ Cardinality(Stepping(r)) = 2
           /\ \E k \in Stepping(r) : FillOf(blocks[k]) # layout.fills[r]
           /\ layout.fills[r] # << NoColor, NoColor >>

(***************************************************************************)
(* C7                                                                       *)
(***************************************************************************)
\* C7: once the surrounding whitespace and the leading "#" are removed, the
\* call yields a color exactly when what is left is 3 or 6 hexadecimal
\* digits, and the default otherwise.
C7_OnlyHexDigitsGiveColor ==
    (pc = "hex_done" /\ hex_code # None) =>
        LET h == LStripSet(Strip(hex_code), { "#" }) IN
        (hex_result # NoColor)
            <=> (Len(h) \in { 3, 6 } /\ \A i \in DOMAIN h : IsHexDigit(h[i]))

====
